---------------------------- MODULE Spec2Model ----------------------------
(***************************************************************************)
(* Hybrid flow-shop scheduling (backend/main.py): the event-driven SimPy   *)
(* simulator, the tick-based Mesa simulator, the heuristics and the random *)
(* search built on them.                                                   *)
(*                                                                         *)
(* Python lists are 0-based; sequences here are 1-based.  Stage indexes,   *)
(* machine ids and job ids keep their Python (0-based) values, and a list  *)
(* `xs[i]` is read as xs[i + 1].  Processing times are natural numbers.    *)
(***************************************************************************)
EXTENDS Integers, Sequences, FiniteSets, TLC

(***************************************************************************)
(* Bounds of the model.                                                    *)
(***************************************************************************)
MaxJobs == 3
MaxStages == 3
\* numJobs * numStages of an instance is at most MaxOps
MaxOps == 6
\* a single processing time is at most MaxTime
MaxTime == 2
\* the processing times of an instance sum to at most MaxWork
MaxWork == 4
\* machines per stage are 1..MaxCap
MaxCap == 2
\* maxIterations is 0..MaxIterations
MaxIterations == 2
\* randomSeed is None or 0..MaxSeed
MaxSeed == 1
\* a score x[i] in [0.0, 1.0] is one of the levels 0..MaxScore
MaxScore == 2
\* gaPopulationSize is 2..MaxPop, gaElitismCount is 0..MaxPop + 1
MaxPop == 2

VARIABLES
    instance,          \* the Instance of the call
    permutation,       \* the permutation argument of the simulator
    simulation_func,   \* "simpy" or "mesa": the simulator called
    method,            \* the function called: "simulate", "heuristic_spt",
                       \* "random_search"
    pc,                \* position of the call: "call" (entry of the method),
                       \* "simulate" (at the call of the simulator), "run",
                       \* "loop" (random search), "returned", "raised"
    env,               \* run_simpy_simulation: simpy environment, resources, log
    model,             \* run_mesa_simulation: the FlowShopModel and the step count
    result,            \* the ScheduleResult returned, or NoResult
    best_result,       \* optimize_with_random_search: best_result (NoResult: None)
    best_makespan,     \* optimize_with_random_search: best_makespan
    iteration,         \* optimize_with_random_search: iterations of the loop done
    simulated,         \* history: the permutations passed to simulation_func
    swallowed,         \* history: simulator errors caught by the except clause
    fallback,          \* history: the fallback of line 129 was taken
    rng,               \* the state of the process-wide `random` module
    observed,          \* history: the results of the successful iterations
    run,               \* 1 or 2: the first or the second run of the method
    first_result,      \* the outcome of the first run
    study,             \* optimize_optuna / optimize_skopt: the trials so far
    ga,                \* optimize_deap: population and generation count
    calls              \* the locals of two interleaved search calls

rsVars == <<best_result, best_makespan, iteration, simulated, swallowed, fallback>>

optVars == <<rng, observed, run, first_result, study, ga, calls>>

vars == <<instance, permutation, simulation_func, method, pc, env, model, result,
          best_result, best_makespan, iteration, simulated, swallowed, fallback,
          rng, observed, run, first_result, study, ga, calls>>

NoResult == [none |-> TRUE]

(***************************************************************************)
(* Helpers on sequences and numbers.                                       *)
(***************************************************************************)
Range(s) == {s[i] : i \in DOMAIN s}

RECURSIVE SumSeq(_)
SumSeq(s) == IF s = <<>> THEN 0 ELSE s[1] + SumSeq(Tail(s))

SetMax(S) == CHOOSE x \in S : \A y \in S : y <= x

\* the first (least) index of a set of indexes, 0 when there is none
FirstIndex(S) ==
    IF S = {} THEN 0 ELSE CHOOSE i \in S : \A k \in S : i <= k

\* s without its first occurrence of x
RemoveFirst(s, x) ==
    LET i == FirstIndex({k \in DOMAIN s : s[k] = x})
    IN IF i = 0 THEN s ELSE SubSeq(s, 1, i - 1) \o SubSeq(s, i + 1, Len(s))

(***************************************************************************)
(* Data model: Job, Instance, TaskLog, ScheduleResult.                     *)
(***************************************************************************)
Job(id, processingTimes) == [id |-> id, processingTimes |-> processingTimes]

TaskLog(jobId, stageId, machineId, globalMachineId, startTime, endTime) ==
    [jobId |-> jobId, stageId |-> stageId, machineId |-> machineId,
     globalMachineId |-> globalMachineId,
     startTime |-> startTime, endTime |-> endTime]

ScheduleResult(makespan, schedule, perm) ==
    [makespan |-> makespan, schedule |-> schedule, permutation |-> perm]

\* next(j for j in instance.jobs if j.id == job_id): index of the first job
\* with that id, 0 when there is none (StopIteration)
JobIndex(inst, job_id) ==
    FirstIndex({i \in DOMAIN inst.jobs : inst.jobs[i].id = job_id})

(***************************************************************************)
(* SimPy.  The environment keeps a queue of scheduled events ordered by    *)
(* (time, priority, eid); eid grows with every event scheduled.            *)
(***************************************************************************)
URGENT == 0
NORMAL == 1

\* the queue ordered by insertion alone, whatever the events' times
Before_by_eid(a, b) == a.eid < b.eid

Before(a, b) ==
    \/ a.time < b.time
    \/ a.time = b.time /\ a.priority < b.priority
    \/ a.time = b.time /\ a.priority = b.priority /\ a.eid < b.eid

\* env.schedule(event, priority, delay)
schedule(e, kind, proc, stage, priority, delay) ==
    LET ev == [time |-> e.now + delay, priority |-> priority, eid |-> e.eid,
               kind |-> kind, proc |-> proc, stage |-> stage]
    IN [e EXCEPT !.queue = SelectSeq(e.queue, LAMBDA x : Before(x, ev))
                           \o <<ev>>
                           \o SelectSeq(e.queue, LAMBDA x : ~Before(x, ev)),
                 !.eid = e.eid + 1]

\* a resource that grants one request more than its capacity
trigger_put_over(e, s) ==
    IF e.put_queue[s + 1] = <<>> THEN e
    ELSE LET p == Head(e.put_queue[s + 1])
         IN IF Len(e.users[s + 1]) <= e.capacity[s + 1]
            THEN schedule([e EXCEPT !.users[s + 1] = Append(@, p),
                                    !.put_queue[s + 1] = Tail(@)],
                          "Request", p, s, NORMAL, 0)
            ELSE e

\* Resource._trigger_put with Resource._do_put: only the head of the put
\* queue is tried; it is granted (its request event succeeds) when fewer
\* than `capacity` requests hold the resource
trigger_put(e, s) ==
    IF e.put_queue[s + 1] = <<>> THEN e
    ELSE LET p == Head(e.put_queue[s + 1])
         IN IF Len(e.users[s + 1]) < e.capacity[s + 1]
            THEN schedule([e EXCEPT !.users[s + 1] = Append(@, p),
                                    !.put_queue[s + 1] = Tail(@)],
                          "Request", p, s, NORMAL, 0)
            ELSE e

\* a put queue served last-in first-out
request_lifo(e, p, s) ==
    trigger_put([e EXCEPT !.put_queue[s + 1] = <<p>> \o @], s)

\* machine.request(): the request joins the put queue, then _trigger_put
request(e, p, s) ==
    trigger_put([e EXCEPT !.put_queue[s + 1] = Append(@, p)], s)

\* leaving the with block: resource.release(req) frees the slot at once and
\* schedules the Release event, whose callback is _trigger_put
release(e, p, s) ==
    schedule([e EXCEPT !.users[s + 1] = RemoveFirst(@, p)],
             "Release", p, s, NORMAL, 0)

\* machine_id = 0 # Simplified for viz
machine_id_of(e, p, s) == 0

\* the loop leaving out the last stage
stages_of_short(processing_times) == Len(processing_times) - 1

\* for stage_idx, proc_time in enumerate(processing_times): the number of
\* stages the job process visits
stages_of(processing_times) == Len(processing_times)

\* job_process from the top of the for loop at stage index s up to its next
\* yield: the generator returns after the last stage, machines[stage_idx]
\* raises IndexError when there is no such stage resource, and otherwise the
\* process requests the machine and waits for the request
enter_stage(e, p, s) ==
    IF s >= stages_of(e.procs[p].processing_times)
    THEN schedule([e EXCEPT !.procs[p].stage_idx = s], "ProcessOk", p, s, NORMAL, 0)
    ELSE IF s >= Len(e.capacity)
    THEN schedule([e EXCEPT !.procs[p].stage_idx = s], "ProcessFail", p, s, NORMAL, 0)
    ELSE request([e EXCEPT !.procs[p].stage_idx = s], p, s)

\* job_process resumed by its granted request: start_time = env.now, then
\* yield env.timeout(proc_time)
on_request(e, p, s) ==
    schedule([e EXCEPT !.procs[p].start_time = e.now],
             "Timeout", p, s, NORMAL, e.procs[p].processing_times[s + 1])

\* the TaskLog job_process appends when its timeout has fired
task_log_of(e, p, s) ==
    TaskLog(e.procs[p].job_id, s, machine_id_of(e, p, s),
            SumSeq(SubSeq(e.capacity, 1, s)) + machine_id_of(e, p, s),
            e.procs[p].start_time, e.now)

\* job_process resumed by its timeout: end_time = env.now, the TaskLog is
\* appended, the with block releases the machine, and the loop goes on to
\* the next stage
on_timeout(e, p, s) ==
    enter_stage(
        release([e EXCEPT !.schedule_log = Append(@, task_log_of(e, p, s))], p, s),
        p, s + 1)

\* run_simpy_simulation up to env.run(): the environment, one Resource per
\* stage, and one process per entry of the permutation, started in
\* permutation order; a job id that no job has ends the call (StopIteration)
RECURSIVE start_processes(_, _, _, _)
start_processes(e, inst, perm, k) ==
    IF k > Len(perm) THEN e
    ELSE LET j == JobIndex(inst, perm[k])
         IN IF j = 0 THEN [e EXCEPT !.status = "raised"]
            ELSE start_processes(
                    schedule([e EXCEPT !.procs = Append(@,
                                  [job_id |-> inst.jobs[j].id,
                                   processing_times |-> inst.jobs[j].processingTimes,
                                   stage_idx |-> 0, start_time |-> 0])],
                             "Initialize", k, 0, URGENT, 0),
                    inst, perm, k + 1)

simpy_setup(inst, perm) ==
    start_processes(
        [now |-> 0, queue |-> <<>>, eid |-> 0, procs |-> <<>>,
         capacity |-> inst.machinesPerStage,
         users |-> [s \in DOMAIN inst.machinesPerStage |-> <<>>],
         put_queue |-> [s \in DOMAIN inst.machinesPerStage |-> <<>>],
         schedule_log |-> <<>>, status |-> "running"],
        inst, perm, 1)

\* env.step(): the next event is popped, the clock moves to its time and its
\* callbacks run; a failed process event raises out of env.run()
env_step(e) ==
    LET ev == Head(e.queue)
        popped == [e EXCEPT !.queue = Tail(@), !.now = ev.time]
    IN CASE ev.kind = "Initialize" -> enter_stage(popped, ev.proc, 0)
         [] ev.kind = "Request" -> on_request(popped, ev.proc, ev.stage)
         [] ev.kind = "Timeout" -> on_timeout(popped, ev.proc, ev.stage)
         [] ev.kind = "Release" -> trigger_put(popped, ev.stage)
         [] ev.kind = "ProcessOk" -> popped
         [] ev.kind = "ProcessFail" -> [popped EXCEPT !.status = "raised"]

\* makespan = env.now; the ScheduleResult of line 104
simpy_result(e, perm) == ScheduleResult(e.now, e.schedule_log, perm)

\* env.run(): steps until no event is left (or an event raises)
RECURSIVE env_run(_)
env_run(e) ==
    IF e.status # "running" THEN e
    ELSE IF e.queue = <<>> THEN [e EXCEPT !.status = "done"]
    ELSE env_run(env_step(e))

\* run_simpy_simulation as a function: the result, or NoResult when it raises
run_simpy_simulation(inst, perm) ==
    LET e == env_run(simpy_setup(inst, perm))
    IN IF e.status = "done" THEN simpy_result(e, perm) ELSE NoResult

(***************************************************************************)
(* Mesa: the tick-based simulator.                                         *)
(***************************************************************************)
\* if steps > 100000: # Safety break
SafetyBreak == 100000

\* JobAgent.__init__
JobAgent(unique_id, job_data) ==
    [unique_id |-> unique_id, job_data |-> job_data, current_stage |-> 0,
     remaining_time |-> 0, status |-> "waiting", machine_assigned |-> -1]

\* FlowShopModel.__init__: one agent per entry of the permutation, in
\* permutation order; a job id that no job has raises StopIteration
RECURSIVE create_agents(_, _, _, _)
create_agents(m, inst, perm, k) ==
    IF k > Len(perm) THEN m
    ELSE LET j == JobIndex(inst, perm[k])
         IN IF j = 0 THEN [m EXCEPT !.status = "raised"]
            ELSE create_agents(
                    [m EXCEPT !.agents_list = Append(@, JobAgent(k - 1, inst.jobs[j]))],
                    inst, perm, k + 1)

FlowShopModel(inst, perm) ==
    create_agents(
        [agents_list |-> <<>>,
         machines_busy_until |->
             [s \in DOMAIN inst.machinesPerStage |->
                 [i \in 1..inst.machinesPerStage[s] |-> 0]],
         task_log |-> <<>>, current_time |-> 0, steps |-> 0,
         status |-> "running"],
        inst, perm, 1)

\* the stage taken as finished one tick early
stage_finished_early(remaining_time) == remaining_time <= 1

\* if agent.remaining_time <= 0: the stage is finished
stage_finished(remaining_time) == remaining_time <= 0

\* the processing branch of step: one tick of work, and on finishing the
\* agent moves to the next stage (done after the last)
agent_process(a, inst) ==
    LET r == a.remaining_time - 1
    IN IF stage_finished(r)
       THEN [a EXCEPT !.remaining_time = r,
                      !.current_stage = a.current_stage + 1,
                      !.status = IF a.current_stage + 1 >= inst.numStages
                                 THEN "done" ELSE "waiting",
                      !.machine_assigned = -1]
       ELSE [a EXCEPT !.remaining_time = r]

\* the first machine of the stage with machines_busy_until <= current_time,
\* -1 when every machine is busy
find_free_machine(m, stage) ==
    LET busy_until == m.machines_busy_until[stage + 1]
    IN FirstIndex({i \in DOMAIN busy_until : busy_until[i] <= m.current_time}) - 1

\* the waiting branch of step for agent i (already updated to a)
agent_wait(m, inst, i, a) ==
    LET stage == a.current_stage
    IN IF stage >= inst.numStages
       THEN [m EXCEPT !.agents_list[i] = [a EXCEPT !.status = "done"]]
       ELSE IF stage >= Len(a.job_data.processingTimes)
               \/ stage >= Len(inst.machinesPerStage)
       THEN [m EXCEPT !.agents_list[i] = a, !.status = "raised"]
       ELSE LET proc_time == a.job_data.processingTimes[stage + 1]
                best_machine == find_free_machine(m, stage)
            IN IF best_machine # -1
               THEN [m EXCEPT
                       !.agents_list[i] =
                           [a EXCEPT !.status = "processing",
                                     !.remaining_time = proc_time,
                                     !.machine_assigned = best_machine],
                       !.machines_busy_until[stage + 1][best_machine + 1] =
                           m.current_time + proc_time,
                       !.task_log = Append(@,
                           TaskLog(a.job_data.id, stage, best_machine,
                                   SumSeq(SubSeq(inst.machinesPerStage, 1, stage))
                                     + best_machine,
                                   m.current_time, m.current_time + proc_time))]
               ELSE [m EXCEPT !.agents_list[i] = a]

\* the body of the for loop of step for agent i
agent_step(m, inst, i) ==
    LET a == m.agents_list[i]
    IN IF a.status = "done" THEN m
       ELSE LET b == IF a.status = "processing" THEN agent_process(a, inst) ELSE a
            IN IF b.status = "waiting"
               THEN agent_wait(m, inst, i, b)
               ELSE [m EXCEPT !.agents_list[i] = b]

RECURSIVE step_agents(_, _, _)
step_agents(m, inst, i) ==
    IF i > Len(m.agents_list) \/ m.status = "raised" THEN m
    ELSE step_agents(agent_step(m, inst, i), inst, i + 1)

\* FlowShopModel.step, and steps += 1 of the loop of run_mesa_simulation
model_step(m, inst) ==
    LET n == step_agents(m, inst, 1)
    IN IF n.status = "raised" THEN n
       ELSE [n EXCEPT !.current_time = n.current_time + 1, !.steps = n.steps + 1]

\* the loop of run_mesa_simulation goes on: some agent is not done and the
\* safety break has not been hit
mesa_loops(m) ==
    /\ \E i \in DOMAIN m.agents_list : m.agents_list[i].status # "done"
    /\ ~(m.steps > SafetyBreak)

\* the ScheduleResult of line 382
mesa_result(m, perm) == ScheduleResult(m.current_time, m.task_log, perm)

RECURSIVE mesa_run(_, _)
mesa_run(m, inst) ==
    IF m.status # "running" THEN m
    ELSE IF ~mesa_loops(m) THEN [m EXCEPT !.status = "done"]
    ELSE mesa_run(model_step(m, inst), inst)

\* run_mesa_simulation as a function: the result, or NoResult when it raises
run_mesa_simulation(inst, perm) ==
    LET m == mesa_run(FlowShopModel(inst, perm), inst)
    IN IF m.status = "done" THEN mesa_result(m, perm) ELSE NoResult

(***************************************************************************)
(* Inputs.                                                                 *)
(***************************************************************************)
\* all sequences over S of length n
SeqsOf(S, n) == [1..n -> S]

Perms(S) == {p \in SeqsOf(S, Cardinality(S)) : Range(p) = S}

\* the instances with n jobs (ids 0..n-1 in list order) and s stages
InstancesOf(n, s) ==
    {[numJobs |-> n, numStages |-> s, machinesPerStage |-> mps,
      jobs |-> [i \in 1..n |-> Job(i - 1, pt[i])]] :
       mps \in SeqsOf(1..MaxCap, s),
       pt \in {m \in SeqsOf(SeqsOf(0..MaxTime, s), n) :
                 SumSeq([i \in 1..n |-> SumSeq(m[i])]) <= MaxWork}}

Shapes == {ns \in (1..MaxJobs) \X (1..MaxStages) : ns[1] * ns[2] <= MaxOps}

ValidInstances == UNION {InstancesOf(ns[1], ns[2]) : ns \in Shapes}

JobIds(inst) == {inst.jobs[i].id : i \in DOMAIN inst.jobs}

\* the data-model invariants of an Instance
ValidInstance(inst) ==
    /\ inst.numJobs = Len(inst.jobs)
    /\ Len(inst.machinesPerStage) = inst.numStages
    /\ \A i \in DOMAIN inst.jobs : Len(inst.jobs[i].processingTimes) = inst.numStages
    /\ \A i, k \in DOMAIN inst.jobs : inst.jobs[i].id = inst.jobs[k].id => i = k
    /\ \A s \in DOMAIN inst.machinesPerStage : inst.machinesPerStage[s] >= 1

\* perm is a bijection onto the job ids of inst
Bijective(inst, perm) ==
    /\ Len(perm) = Len(inst.jobs)
    /\ Range(perm) = JobIds(inst)

(***************************************************************************)
(* The process-wide random source (module `random`).  Its state is either  *)
(* unknown (never seeded by the call: every draw can give every value) or  *)
(* the stream started by random.seed(seed), whose pos-th draw is a fixed   *)
(* function of seed and pos.  A random operation is the set of its         *)
(* outcomes <<value, state after>>.                                        *)
(***************************************************************************)
\* randomSeed = None
NoSeed == -1

Unseeded == [seeded |-> FALSE, seed |-> 0, pos |-> 0]

\* random.seed(seed)
random_seed(seed) == [seeded |-> TRUE, seed |-> seed, pos |-> 0]

\* if instance.randomSeed is not None: random.seed(instance.randomSeed)
seed_from(inst, r) ==
    IF inst.randomSeed # NoSeed THEN random_seed(inst.randomSeed) ELSE r

\* the pos-th number of the stream of a seed
mix(seed, pos) == (seed + 1) * (2 * pos + 1) + pos * pos

\* a random integer in 0..k-1
randbelow(r, k) ==
    IF r.seeded THEN {<<mix(r.seed, r.pos) % k, [r EXCEPT !.pos = @ + 1]>>}
    ELSE {<<v, r>> : v \in 0..(k - 1)}

\* x with the entries at positions i and j exchanged
Swap(x, i, j) == [x EXCEPT ![i] = x[j], ![j] = x[i]]

\* random.shuffle(x): for i in reversed(range(1, len(x))):
\* j = randbelow(i + 1); x[i], x[j] = x[j], x[i]
RECURSIVE shuffle_from(_, _, _)
shuffle_from(x, r, i) ==
    IF i < 1 THEN {<<x, r>>}
    ELSE UNION {shuffle_from(Swap(x, i + 1, o[1] + 1), o[2], i - 1) :
                  o \in randbelow(r, i + 1)}

random_shuffle(x, r) == shuffle_from(x, r, Len(x) - 1)

\* random.random() < pct / 100
chance(r, pct) ==
    IF r.seeded
    THEN {<<mix(r.seed, r.pos) % 100 < pct, [r EXCEPT !.pos = @ + 1]>>}
    ELSE {<<b, r>> : b \in {c \in BOOLEAN : IF c THEN pct > 0 ELSE pct < 100}}

\* random.choice(seq)
random_choice(seq, r) == {<<seq[o[1] + 1], o[2]>> : o \in randbelow(r, Len(seq))}

\* random.sample(population, k) for k <= len(population): for i in
\* range(k): j = randbelow(n - i); result[i] = pool[j];
\* pool[j] = pool[n - i - 1]
RECURSIVE sample_from(_, _, _, _, _)
sample_from(pool, i, k, res, r) ==
    IF i = k THEN {<<res, r>>}
    ELSE UNION {sample_from([pool EXCEPT ![o[1] + 1] = pool[Len(pool) - i]],
                            i + 1, k, Append(res, pool[o[1] + 1]), o[2]) :
                  o \in randbelow(r, Len(pool) - i)}

random_sample(population, k, r) == sample_from(population, 0, k, <<>>, r)

(***************************************************************************)
(* A call of a simulator on a valid instance and a bijective permutation.  *)
(***************************************************************************)
\* float('inf') of line 108, below every comparison of LessThan
Infinity == -1

\* a comparison that also replaces the best result on an equal makespan
LessOrEqual(makespan, best) == best = Infinity \/ makespan <= best

\* result.makespan < best_makespan
LessThan(makespan, best) == best = Infinity \/ makespan < best

\* the state before any simulator or search has run
Idle ==
    /\ env = [status |-> "none"]
    /\ model = [status |-> "none"]
    /\ result = NoResult
    /\ best_result = NoResult
    /\ best_makespan = Infinity
    /\ iteration = 0
    /\ simulated = {}
    /\ swallowed = 0
    /\ fallback = FALSE
    /\ rng = Unseeded
    /\ observed = <<>>
    /\ run = 1
    /\ first_result = NoResult
    /\ study = [status |-> "none"]
    /\ ga = [status |-> "none"]
    /\ calls = <<>>

\* the single-stage, two-stage and parallel-machine scenarios S1, S2, S3
ScenarioS1 ==
    [numJobs |-> 3, numStages |-> 1, machinesPerStage |-> <<1>>,
     jobs |-> <<Job(0, <<3>>), Job(1, <<2>>), Job(2, <<5>>)>>]

ScenarioS2 ==
    [numJobs |-> 2, numStages |-> 2, machinesPerStage |-> <<1, 1>>,
     jobs |-> <<Job(0, <<4, 1>>), Job(1, <<1, 4>>)>>]

ScenarioS3 ==
    [numJobs |-> 3, numStages |-> 1, machinesPerStage |-> <<2>>,
     jobs |-> <<Job(0, <<5>>), Job(1, <<5>>), Job(2, <<5>>)>>]

Scenarios == {ScenarioS1, ScenarioS2, ScenarioS3}

Init ==
    /\ instance \in ValidInstances \cup Scenarios
    /\ permutation \in Perms(JobIds(instance))
    /\ simulation_func \in {"simpy", "mesa"}
    /\ method = "simulate"
    /\ pc = "simulate"
    /\ Idle

\* lines 63-99: setup, processes started in permutation order
SimpyCall ==
    /\ pc = "simulate" /\ simulation_func = "simpy"
    /\ env' = simpy_setup(instance, permutation)
    /\ pc' = IF env'.status = "raised" THEN "raised" ELSE "run"
    /\ UNCHANGED <<instance, permutation, simulation_func, method, model, result, rsVars, optVars>>

\* one env.step() of env.run() (line 101)
SimpyStep(kind) ==
    /\ pc = "run" /\ simulation_func = "simpy"
    /\ env.queue # <<>>
    /\ Head(env.queue).kind = kind
    /\ env' = env_step(env)
    /\ pc' = IF env'.status = "raised" THEN "raised" ELSE "run"
    /\ UNCHANGED <<instance, permutation, simulation_func, method, model, result, rsVars, optVars>>

ProcessInitialize == SimpyStep("Initialize")
RequestGranted == SimpyStep("Request")
TimeoutFired == SimpyStep("Timeout")
ReleaseProcessed == SimpyStep("Release")
ProcessEnded == SimpyStep("ProcessOk")

\* lines 101-104: env.run() returns when the queue is empty
SimpyReturn ==
    /\ pc = "run" /\ simulation_func = "simpy"
    /\ env.queue = <<>>
    /\ env' = [env EXCEPT !.status = "done"]
    /\ result' = simpy_result(env, permutation)
    /\ pc' = "returned"
    /\ UNCHANGED <<instance, permutation, simulation_func, method, model, rsVars, optVars>>

SimpyNext ==
    \/ ProcessInitialize
    \/ RequestGranted
    \/ TimeoutFired
    \/ ReleaseProcessed
    \/ ProcessEnded
    \/ SimpyReturn

\* line 372: the model is built
MesaCall ==
    /\ pc = "simulate" /\ simulation_func = "mesa"
    /\ model' = FlowShopModel(instance, permutation)
    /\ pc' = IF model'.status = "raised" THEN "raised" ELSE "run"
    /\ UNCHANGED <<instance, permutation, simulation_func, method, env, result, rsVars, optVars>>

\* lines 376-380: one turn of the loop
MesaStep ==
    /\ pc = "run" /\ simulation_func = "mesa"
    /\ mesa_loops(model)
    /\ model' = model_step(model, instance)
    /\ pc' = IF model'.status = "raised" THEN "raised" ELSE "run"
    /\ UNCHANGED <<instance, permutation, simulation_func, method, env, result, rsVars, optVars>>

\* line 382: the loop is left and the result returned
MesaReturn ==
    /\ pc = "run" /\ simulation_func = "mesa"
    /\ ~mesa_loops(model)
    /\ model' = [model EXCEPT !.status = "done"]
    /\ result' = mesa_result(model, permutation)
    /\ pc' = "returned"
    /\ UNCHANGED <<instance, permutation, simulation_func, method, env, rsVars, optVars>>

MesaNext ==
    \/ MesaStep
    \/ MesaReturn

Next ==
    \/ SimpyCall
    \/ SimpyNext
    \/ MesaCall
    \/ MesaNext

Spec == Init /\ [][Next]_vars

(***************************************************************************)
(* Properties of the simulators (specification Spec).                      *)
(***************************************************************************)
Returned(sim) == pc = "returned" /\ simulation_func = sim

\* the TaskLogs written so far by the running simulator
CurrentLog ==
    IF pc \in {"call", "simulate"} THEN <<>>
    ELSE IF simulation_func = "simpy" THEN env.schedule_log
    ELSE model.task_log

\* the TaskLog of (job, stage) in a schedule that holds it
LogOf(sched, job, stage) ==
    sched[CHOOSE i \in DOMAIN sched :
              sched[i].jobId = job /\ sched[i].stageId = stage]

\* the time at which a job becomes ready for a stage: 0 for the first stage,
\* the end of the previous stage otherwise
ReadyTime(sched, job, stage) ==
    IF stage = 0 THEN 0 ELSE LogOf(sched, job, stage - 1).endTime

\* the position of a job id in the permutation
PermIndex(perm, job) == FirstIndex({i \in DOMAIN perm : perm[i] = job})

Overlap(a, b) == a.startTime < b.endTime /\ b.startTime < a.endTime

MaxEnd(sched) == SetMax({sched[i].endTime : i \in DOMAIN sched})

\* C1: two jobs ready for the same stage at the same time: the one later in
\* the permutation never starts that stage strictly before the earlier one
C1_TiePriority ==
    Returned("simpy") =>
        \A a, b \in DOMAIN permutation : \A s \in 0..(instance.numStages - 1) :
            (a < b /\ ReadyTime(result.schedule, permutation[a], s)
                      = ReadyTime(result.schedule, permutation[b], s))
            => LogOf(result.schedule, permutation[a], s).startTime
               <= LogOf(result.schedule, permutation[b], s).startTime

\* C2: no two TaskLogs of the returned schedule with the same stageId and
\* machineId overlap in [startTime, endTime)
C2_NoDoubleBooking ==
    Returned("simpy") =>
        \A i, k \in DOMAIN result.schedule :
            (i < k /\ result.schedule[i].stageId = result.schedule[k].stageId
                   /\ result.schedule[i].machineId = result.schedule[k].machineId)
            => ~Overlap(result.schedule[i], result.schedule[k])

\* C3: the schedule returned by run_simpy_simulation has numJobs x numStages
\* TaskLogs, exactly one for every (jobId, stageId) pair
C3_ScheduleComplete ==
    Returned("simpy") =>
        /\ Len(result.schedule) = instance.numJobs * instance.numStages
        /\ \A j \in JobIds(instance) : \A s \in 0..(instance.numStages - 1) :
              Cardinality({i \in DOMAIN result.schedule :
                              /\ result.schedule[i].jobId = j
                              /\ result.schedule[i].stageId = s}) = 1

C3_Witness ==
    /\ Returned("simpy")
    /\ instance.numJobs >= 2 /\ instance.numStages >= 2
    /\ Len(result.schedule) = instance.numJobs * instance.numStages

\* C4: in both simulators, at every moment, a job's TaskLog of stage s + 1
\* starts no earlier than its TaskLog of stage s ends
C4_StagePrecedence ==
    \A i, k \in DOMAIN CurrentLog :
        (CurrentLog[i].jobId = CurrentLog[k].jobId
         /\ CurrentLog[k].stageId = CurrentLog[i].stageId + 1)
        => CurrentLog[i].endTime <= CurrentLog[k].startTime

\* a job that had to wait for its next stage, in a returned schedule
C4_Witness ==
    /\ pc = "returned"
    /\ \E i, k \in DOMAIN result.schedule :
          /\ result.schedule[i].jobId = result.schedule[k].jobId
          /\ result.schedule[k].stageId = result.schedule[i].stageId + 1
          /\ result.schedule[i].endTime < result.schedule[k].startTime

\* the completion times of the permutation flow-shop recurrence: entry
\* [i, s] is the end of the i-th job of the permutation at the s-th stage
FlowShopEnd(inst, perm) ==
    LET end[i \in 0..Len(perm), s \in 0..inst.numStages] ==
            IF i = 0 \/ s = 0 THEN 0
            ELSE LET a == end[i - 1, s]
                     b == end[i, s - 1]
                 IN (IF a >= b THEN a ELSE b)
                    + inst.jobs[JobIndex(inst, perm[i])].processingTimes[s]
    IN end

SingleMachineStages(inst) ==
    \A s \in DOMAIN inst.machinesPerStage : inst.machinesPerStage[s] = 1

TotalWork(inst) ==
    SumSeq([i \in DOMAIN inst.jobs |-> SumSeq(inst.jobs[i].processingTimes)])

\* C17: with one machine at every stage, the end times and the makespan of
\* run_simpy_simulation are those of the permutation flow-shop recurrence;
\* with a single stage the makespan is the sum of the processing times, and
\* jobs A=[4,1], B=[1,4] give 9 for [A,B] and 6 for [B,A]
C17_FlowShopRecurrence ==
    (Returned("simpy") /\ SingleMachineStages(instance)) =>
        LET end == FlowShopEnd(instance, permutation)
        IN /\ \A i \in DOMAIN permutation : \A s \in 1..instance.numStages :
                 \E k \in DOMAIN result.schedule :
                     /\ result.schedule[k].jobId = permutation[i]
                     /\ result.schedule[k].stageId = s - 1
                     /\ result.schedule[k].endTime = end[i, s]
           /\ result.makespan = end[Len(permutation), instance.numStages]
           /\ instance.numStages = 1 => result.makespan = TotalWork(instance)
           /\ (instance = ScenarioS2 /\ permutation = <<0, 1>>)
                 => result.makespan = 9
           /\ (instance = ScenarioS2 /\ permutation = <<1, 0>>)
                 => result.makespan = 6

\* scenario S2 in the order [A, B], where B waits for the second stage
C17_Witness ==
    /\ Returned("simpy")
    /\ instance = ScenarioS2 /\ permutation = <<0, 1>>
    /\ result.makespan = 9

\* the Release events of stage s still to be processed at the current time
PendingRelease(e, s) ==
    {i \in DOMAIN e.queue :
        e.queue[i].kind = "Release" /\ e.queue[i].stage = s
        /\ e.queue[i].time = e.now}

Running == simulation_func = "simpy" /\ pc = "run"

\* C19 as claimed: in every state of run_simpy_simulation no stage has more
\* jobs holding a machine than it has machines, and a job waits for a stage
\* only when all machines of the stage are held
C19_WaitsOnlyWhenFull ==
    Running =>
        \A s \in DOMAIN env.capacity :
            /\ Len(env.users[s]) <= env.capacity[s]
            /\ env.put_queue[s] # <<>> => Len(env.users[s]) = env.capacity[s]

\* C19 amended: no stage has more jobs holding a machine than it has
\* machines, and a job waits for a stage with a free machine only while
\* the Release event of that machine is still to be processed at the
\* current time: no job waits beside a free machine when the clock advances
C19_CapacityRespected ==
    Running =>
        \A s \in DOMAIN env.capacity :
            /\ Len(env.users[s]) <= env.capacity[s]
            /\ (env.put_queue[s] # <<>> /\ Len(env.users[s]) < env.capacity[s])
                 => PendingRelease(env, s - 1) # {}
            /\ (env.put_queue[s] # <<>>
                 /\ (env.queue = <<>> \/ Head(env.queue).time > env.now))
                 => Len(env.users[s]) = env.capacity[s]

\* a stage with every machine held and a job waiting for it
C19_Witness ==
    /\ Running
    /\ \E s \in DOMAIN env.capacity :
          /\ env.capacity[s] >= 2
          /\ Len(env.users[s]) = env.capacity[s]
          /\ env.put_queue[s] # <<>>
          /\ env.queue # <<>> /\ Head(env.queue).time > env.now

\* C5: the makespan of the ScheduleResult of either simulator is the
\* maximum endTime of its schedule
C5_MakespanIsMaxEnd ==
    pc = "returned" => result.makespan = MaxEnd(result.schedule)

LongTimes == {SafetyBreak \div 2, SafetyBreak + 1}

\* one or two jobs, one stage with one machine
LongInstances ==
    {[numJobs |-> n, numStages |-> 1, machinesPerStage |-> <<1>>,
      jobs |-> [i \in 1..n |-> Job(i - 1, <<pt[i]>>)]] :
       n \in 1..2, pt \in SeqsOf(LongTimes, 2)}

InitLong ==
    /\ instance \in LongInstances
    /\ permutation \in Perms(JobIds(instance))
    /\ simulation_func = "mesa"
    /\ method = "simulate"
    /\ pc = "simulate"
    /\ Idle

NextLong ==
    \/ MesaCall
    \/ MesaNext

SpecLong == InitLong /\ [][NextLong]_vars

\* C20: run_mesa_simulation returns only when every JobAgent is done, with
\* exactly one TaskLog for every (job, stage) pair: the safety break never
\* makes it return a result with unfinished jobs
C20_ReturnsWhenAllDone ==
    Returned("mesa") =>
        /\ \A i \in DOMAIN model.agents_list :
              model.agents_list[i].status = "done"
        /\ \A j \in JobIds(instance) : \A st \in 0..(instance.numStages - 1) :
              Cardinality({i \in DOMAIN result.schedule :
                              /\ result.schedule[i].jobId = j
                              /\ result.schedule[i].stageId = st}) = 1

(***************************************************************************)
(* A call of a simulator with a permutation that may not be a bijection    *)
(* onto the job ids (specification SpecPerm).                              *)
(***************************************************************************)
\* sequences of length 0..numJobs+1 over the job ids and one id (numJobs)
\* that no job has
AnyPermutations(inst) ==
    UNION {SeqsOf(JobIds(inst) \cup {inst.numJobs}, n) : n \in 0..(inst.numJobs + 1)}

PermInstances == {i \in ValidInstances : i.numJobs * i.numStages <= MaxJobs}

InitPerm ==
    /\ instance \in PermInstances
    /\ permutation \in AnyPermutations(instance)
    /\ simulation_func \in {"simpy", "mesa"}
    /\ method = "simulate"
    /\ pc = "simulate"
    /\ Idle

SpecPerm == InitPerm /\ [][Next]_vars

\* C7: a simulator returns a ScheduleResult only for a permutation that is
\* a bijection onto the job ids; any other permutation raises
C7_InvalidPermutationRejected ==
    pc = "returned" => Bijective(instance, permutation)

(***************************************************************************)
(* heuristic_spt on an instance that may violate the data-model invariants *)
(* (specification SpecHeuristic).                                          *)
(***************************************************************************)
\* sorted(..., key=...) on a sequence of <<key, item>> pairs: Python's sort
\* is stable, so an item goes after the last one whose key is not greater
RECURSIVE sorted(_)
sorted(pairs) ==
    IF pairs = <<>> THEN <<>>
    ELSE LET front == sorted(SubSeq(pairs, 1, Len(pairs) - 1))
             x == pairs[Len(pairs)]
             n == Cardinality({i \in DOMAIN front : front[i][1] <= x[1]})
         IN SubSeq(front, 1, n) \o <<x>> \o SubSeq(front, n + 1, Len(front))

\* lines 144-145: jobs sorted by total processing time, their ids
spt_permutation(inst) ==
    LET sorted_jobs ==
            sorted([i \in DOMAIN inst.jobs |->
                       <<SumSeq(inst.jobs[i].processingTimes), inst.jobs[i]>>])
    IN [i \in DOMAIN sorted_jobs |-> sorted_jobs[i][2].id]

\* an instance with one data-model invariant broken: a job with a missing
\* or an extra processing time, a repeated Job.id, machinesPerStage with a
\* missing or an extra entry
Violations(inst) ==
    {[inst EXCEPT !.jobs[k].processingTimes = SubSeq(@, 1, Len(@) - 1)] :
        k \in DOMAIN inst.jobs}
    \cup {[inst EXCEPT !.jobs[k].processingTimes = Append(@, 1)] :
        k \in DOMAIN inst.jobs}
    \cup {[inst EXCEPT !.jobs[k].id = inst.jobs[1].id] :
        k \in DOMAIN inst.jobs \ {1}}
    \cup {[inst EXCEPT !.machinesPerStage = SubSeq(@, 1, Len(@) - 1)],
          [inst EXCEPT !.machinesPerStage = Append(@, 1)]}

InitHeuristic ==
    /\ instance \in UNION {Violations(i) \cup {i} : i \in ValidInstances}
    /\ permutation = <<>>
    /\ simulation_func = "simpy"
    /\ method = "heuristic_spt"
    /\ pc = "call"
    /\ Idle

\* heuristic_spt, lines 144-146, up to its call of run_simpy_simulation
HeuristicSPT ==
    /\ pc = "call" /\ method = "heuristic_spt"
    /\ permutation' = spt_permutation(instance)
    /\ pc' = "simulate"
    /\ UNCHANGED <<instance, simulation_func, method, env, model, result, rsVars, optVars>>

NextHeuristic ==
    \/ HeuristicSPT
    \/ SimpyCall
    \/ SimpyNext

SpecHeuristic == InitHeuristic /\ [][NextHeuristic]_vars

\* the env.step() calls made so far: every event scheduled has an eid, and
\* those no longer in the queue were processed
EventsProcessed ==
    IF env.status = "none" THEN 0 ELSE env.eid - Len(env.queue)

\* C8: on an instance that violates a data-model invariant no simulation
\* step is executed and no ScheduleResult is returned
C8_ValidationPrecedesSimulation ==
    ~ValidInstance(instance) =>
        /\ pc # "returned"
        /\ EventsProcessed = 0

(***************************************************************************)
(* The five heuristics on valid instances whose jobs list is in any order  *)
(* (specification SpecOrder).                                              *)
(***************************************************************************)
Heuristics ==
    {"heuristic_spt", "heuristic_lpt", "heuristic_first_stage_spt",
     "heuristic_last_stage_spt", "heuristic_bottleneck"}

\* min(instance.machinesPerStage)
min_machines(inst) ==
    CHOOSE c \in Range(inst.machinesPerStage) :
        \A d \in Range(inst.machinesPerStage) : c <= d

\* instance.machinesPerStage.index(min_machines), as a 0-based stage index
bottleneck_stage_idx(inst) ==
    FirstIndex({s \in DOMAIN inst.machinesPerStage :
                   inst.machinesPerStage[s] = min_machines(inst)}) - 1

\* the sort key of a job under each heuristic; sorted(..., reverse=True)
\* is the stable sort by descending key, here by the negated key
sort_key(inst, m, job) ==
    CASE m = "heuristic_spt" -> SumSeq(job.processingTimes)
      [] m = "heuristic_lpt" -> 0 - SumSeq(job.processingTimes)
      [] m = "heuristic_first_stage_spt" -> job.processingTimes[1]
      [] m = "heuristic_last_stage_spt" ->
            job.processingTimes[Len(job.processingTimes)]
      [] m = "heuristic_bottleneck" ->
            job.processingTimes[bottleneck_stage_idx(inst) + 1]

\* sorted_jobs = sorted(instance.jobs, key=...); perm = [j.id for j in ...]
heuristic_permutation(inst, m) ==
    LET sorted_jobs ==
            sorted([i \in DOMAIN inst.jobs |->
                       <<sort_key(inst, m, inst.jobs[i]), inst.jobs[i]>>])
    IN [i \in DOMAIN sorted_jobs |-> sorted_jobs[i][2].id]

\* the instance with its jobs list in every order
ListOrders(inst) ==
    {[inst EXCEPT !.jobs = [k \in DOMAIN inst.jobs |-> inst.jobs[q[k]]]] :
        q \in Perms(DOMAIN inst.jobs)}

InitOrder ==
    /\ \E v \in ValidInstances :
          /\ v.numStages <= 2 /\ v.numJobs * v.numStages <= 4
          /\ instance \in ListOrders(v)
    /\ permutation = <<>>
    /\ simulation_func = "simpy"
    /\ method \in Heuristics
    /\ pc = "call"
    /\ Idle

\* a heuristic up to its call of run_simpy_simulation
Heuristic(m) ==
    /\ pc = "call" /\ method = m
    /\ permutation' = heuristic_permutation(instance, m)
    /\ pc' = "simulate"
    /\ UNCHANGED <<instance, simulation_func, method, env, model, result, rsVars, optVars>>

HeuristicLPT == Heuristic("heuristic_lpt")
HeuristicFirstStageSPT == Heuristic("heuristic_first_stage_spt")
HeuristicLastStageSPT == Heuristic("heuristic_last_stage_spt")
HeuristicBottleneck == Heuristic("heuristic_bottleneck")

NextOrder ==
    \/ HeuristicSPT
    \/ HeuristicLPT
    \/ HeuristicFirstStageSPT
    \/ HeuristicLastStageSPT
    \/ HeuristicBottleneck
    \/ SimpyCall
    \/ SimpyNext

SpecOrder == InitOrder /\ [][NextOrder]_vars

\* the job with the given id
JobOf(inst, job_id) == inst.jobs[JobIndex(inst, job_id)]

\* C15: the permutation of each of the five heuristics is a bijection onto
\* the job ids in which jobs with equal sort keys are in ascending Job.id
\* order, whatever the order of the jobs list
C15_TiesByAscendingId ==
    (method \in Heuristics /\ pc # "call") =>
        /\ Bijective(instance, permutation)
        /\ \A a, b \in DOMAIN permutation :
              (a < b /\ sort_key(instance, method, JobOf(instance, permutation[a]))
                        = sort_key(instance, method, JobOf(instance, permutation[b])))
              => permutation[a] < permutation[b]

(***************************************************************************)
(* optimize_with_random_search (specification SpecRandom).                 *)
(***************************************************************************)
\* simulation_func(instance, perm)
simulate(inst, perm) ==
    IF simulation_func = "simpy" THEN run_simpy_simulation(inst, perm)
    ELSE run_mesa_simulation(inst, perm)

\* list(range(instance.numJobs))
identity_permutation(inst) == [i \in 1..inst.numJobs |-> i - 1]

\* the outcomes of random.shuffle(perm) on list(range(numJobs))
shuffles(inst, r) == random_shuffle(identity_permutation(inst), r)

Seeds == {NoSeed} \cup 0..MaxSeed

\* the instance i with job ids moved by off, maxIterations k and
\* randomSeed sd
RandomSearchInstance(i, off, k, sd) ==
    [maxIterations |-> k, randomSeed |-> sd,
     numJobs |-> i.numJobs, numStages |-> i.numStages,
     machinesPerStage |-> i.machinesPerStage,
     jobs |-> [n \in DOMAIN i.jobs |->
                  Job(i.jobs[n].id + off, i.jobs[n].processingTimes)]]

\* valid instances whose job ids are 0..numJobs-1 or 1..numJobs
InitRandom ==
    /\ \E i \in ValidInstances, off \in {0, 1}, k \in 0..MaxIterations,
          sd \in Seeds :
          instance = RandomSearchInstance(i, off, k, sd)
    /\ permutation = <<>>
    /\ simulation_func \in {"simpy", "mesa"}
    /\ method = "random_search"
    /\ pc = "call"
    /\ Idle

\* lines 107-112
RandomSearchStart ==
    /\ pc = "call" /\ method = "random_search"
    /\ best_result' = NoResult
    /\ best_makespan' = Infinity
    /\ iteration' = 0
    /\ rng' = seed_from(instance, rng)
    /\ observed' = <<>>
    /\ pc' = "loop"
    /\ UNCHANGED <<instance, permutation, simulation_func, method, env, model,
                   result, simulated, swallowed, fallback, run, first_result,
                   study, ga, calls>>

\* lines 115-127: one iteration; an exception of the simulator is caught,
\* printed, and the loop continues
RandomSearchIteration ==
    /\ pc = "loop" /\ method = "random_search"
    /\ iteration < instance.maxIterations
    /\ \E o \in shuffles(instance, rng) :
          LET perm == o[1]
              r == simulate(instance, perm)
          IN /\ permutation' = perm
             /\ rng' = o[2]
             /\ simulated' = simulated \cup {perm}
             /\ IF r = NoResult
                THEN /\ swallowed' = swallowed + 1
                     /\ UNCHANGED <<best_result, best_makespan, observed>>
                ELSE /\ swallowed' = swallowed
                     /\ observed' = Append(observed, r)
                     /\ IF LessThan(r.makespan, best_makespan)
                        THEN /\ best_makespan' = r.makespan
                             /\ best_result' = r
                        ELSE UNCHANGED <<best_result, best_makespan>>
    /\ iteration' = iteration + 1
    /\ UNCHANGED <<instance, simulation_func, method, pc, env, model, result,
                   fallback, run, first_result, study, ga, calls>>

\* lines 129-132: no best result: the identity permutation is simulated and
\* its result (or its exception) is the outcome of the call
RandomSearchFallback ==
    /\ pc = "loop" /\ method = "random_search"
    /\ iteration >= instance.maxIterations
    /\ best_result = NoResult
    /\ LET perm == identity_permutation(instance)
           r == simulate(instance, perm)
       IN /\ permutation' = perm
          /\ simulated' = simulated \cup {perm}
          /\ result' = r
          /\ pc' = IF r = NoResult THEN "raised" ELSE "returned"
    /\ fallback' = TRUE
    /\ UNCHANGED <<instance, simulation_func, method, env, model, best_result,
                   best_makespan, iteration, swallowed, optVars>>

\* line 134
RandomSearchReturn ==
    /\ pc = "loop" /\ method = "random_search"
    /\ iteration >= instance.maxIterations
    /\ best_result # NoResult
    /\ result' = best_result
    /\ pc' = "returned"
    /\ UNCHANGED <<instance, permutation, simulation_func, method, env, model,
                   rsVars, optVars>>

NextRandom ==
    \/ RandomSearchStart
    \/ RandomSearchIteration
    \/ RandomSearchFallback
    \/ RandomSearchReturn

SpecRandom == InitRandom /\ [][NextRandom]_vars

\* C9: the call ends by returning a ScheduleResult whose permutation is a
\* bijection onto the job ids and was simulated during the call
C9_ReturnsSimulatedBijection ==
    pc \in {"returned", "raised"} =>
        /\ pc = "returned"
        /\ Bijective(instance, result.permutation)
        /\ result.permutation \in simulated

\* C10: no simulator error is caught and dropped, and the fallback is taken
\* only when the loop ran zero iterations
C10_NoSwallowedErrors ==
    /\ swallowed = 0
    /\ fallback => iteration = 0

(***************************************************************************)
(* optimize_with_random_search on two-job instances and on the scenarios   *)
(* S1 and S3 (specification SpecSearch).                                   *)
(***************************************************************************)
InitSearch ==
    /\ \E i \in InstancesOf(2, 1) \cup InstancesOf(2, 2)
                 \cup {ScenarioS1, ScenarioS3},
          k \in 0..MaxIterations, sd \in Seeds :
          instance = RandomSearchInstance(i, 0, k, sd)
    /\ permutation = <<>>
    /\ simulation_func \in {"simpy", "mesa"}
    /\ method = "random_search"
    /\ pc = "call"
    /\ Idle

SpecSearch == InitSearch /\ [][NextRandom]_vars

\* the least makespan among the results of the successful iterations
MinObserved ==
    CHOOSE m \in {observed[i].makespan : i \in DOMAIN observed} :
        \A i \in DOMAIN observed : m <= observed[i].makespan

\* C18: after k >= 1 successful iterations best_makespan is the least
\* makespan of the k simulated permutations and best_result is the result
\* of the first iteration that reached it; best_makespan never increases
\* from one iteration to the next
C18_KeepsFirstMinimum ==
    /\ []((pc = "loop" /\ observed # <<>>) =>
            /\ best_makespan = MinObserved
            /\ best_result =
                 observed[FirstIndex({i \in DOMAIN observed :
                                         observed[i].makespan = MinObserved})])
    /\ [][(pc = "loop" /\ best_makespan # Infinity) =>
            (best_makespan' # Infinity /\ best_makespan' <= best_makespan)]_vars

\* a later iteration reached the least makespan again with another
\* permutation and did not replace the best result
C18_Witness ==
    /\ pc = "loop"
    /\ \E i, k \in DOMAIN observed :
          /\ i < k
          /\ observed[i].makespan = MinObserved
          /\ observed[k].makespan = MinObserved
          /\ observed[i].permutation # observed[k].permutation
          /\ best_result = observed[i]

(***************************************************************************)
(* optimize_optuna and optimize_skopt (specification SpecBayes).  A trial  *)
(* is a vector x of one score per entry of the jobs list.  The sampler of  *)
(* optuna.create_study(direction='minimize') is given no seed: every       *)
(* vector can be suggested.  gp_minimize draws from its own random state,  *)
(* started from random_state.                                              *)
(***************************************************************************)
\* job_scores of lines 176-180 (186-190, 200-204, 215-219): the job ids
\* paired with their scores, sorted by score alone
decode(inst, x) ==
    LET job_scores == sorted([i \in DOMAIN inst.jobs |-> <<x[i], inst.jobs[i].id>>])
    IN [i \in DOMAIN job_scores |-> job_scores[i][2]]

\* the vectors of n scores that can be drawn from the state r
RECURSIVE suggest(_, _)
suggest(r, n) ==
    IF n = 0 THEN {<<(<<>>), r>>}
    ELSE UNION {{<<Append(o[1], d[1]), d[2]>> : d \in randbelow(o[2], MaxScore + 1)} :
                  o \in suggest(r, n - 1)}

\* random_state = instance.randomSeed if instance.randomSeed is not None else 0
random_state(inst) == IF inst.randomSeed # NoSeed THEN inst.randomSeed ELSE 0

\* lines 183, 210: the study is created
BayesStart(m) ==
    /\ pc = "call" /\ method = m
    /\ study' = [status |-> "running", n |-> 0, x |-> <<>>, best_x |-> <<>>,
                 best_value |-> Infinity,
                 sampler |-> IF m = "skopt" THEN random_seed(random_state(instance))
                             ELSE Unseeded]
    /\ pc' = "loop"
    /\ UNCHANGED <<instance, permutation, simulation_func, method, env, model,
                   result, rsVars, rng, observed, run, first_result, ga, calls>>

\* one call of objective: a vector is suggested, decoded and simulated; the
\* study keeps the first trial of the least value
BayesTrial(m) ==
    /\ pc = "loop" /\ method = m
    /\ study.n < instance.maxIterations
    /\ \E o \in suggest(study.sampler, Len(instance.jobs)) :
          LET perm == decode(instance, o[1])
              r == run_simpy_simulation(instance, perm)
          IN /\ permutation' = perm
             /\ IF r = NoResult
                THEN /\ pc' = "raised"
                     /\ study' = [study EXCEPT !.x = o[1], !.sampler = o[2]]
                ELSE /\ pc' = pc
                     /\ study' =
                          IF LessThan(r.makespan, study.best_value)
                          THEN [study EXCEPT !.n = @ + 1, !.x = o[1],
                                             !.sampler = o[2], !.best_x = o[1],
                                             !.best_value = r.makespan]
                          ELSE [study EXCEPT !.n = @ + 1, !.x = o[1],
                                             !.sampler = o[2]]
    /\ UNCHANGED <<instance, simulation_func, method, env, model, result,
                   rsVars, rng, observed, run, first_result, ga, calls>>

\* lines 186-193, 213-221: the best vector is decoded and simulated; with
\* no trial there is no best vector and the call raises
BayesReturn(m) ==
    /\ pc = "loop" /\ method = m
    /\ study.n >= instance.maxIterations
    /\ IF study.n = 0
       THEN /\ pc' = "raised"
            /\ UNCHANGED <<permutation, result>>
       ELSE LET best_perm == decode(instance, study.best_x)
                r == run_simpy_simulation(instance, best_perm)
            IN /\ permutation' = best_perm
               /\ result' = r
               /\ pc' = IF r = NoResult THEN "raised" ELSE "returned"
    /\ study' = [study EXCEPT !.status = "done"]
    /\ UNCHANGED <<instance, simulation_func, method, env, model,
                   rsVars, rng, observed, run, first_result, ga, calls>>

OptunaStart == BayesStart("optuna")
OptunaTrial == BayesTrial("optuna")
OptunaReturn == BayesReturn("optuna")
SkoptStart == BayesStart("skopt")
SkoptTrial == BayesTrial("skopt")
SkoptReturn == BayesReturn("skopt")

NextBayes ==
    \/ OptunaStart
    \/ OptunaTrial
    \/ OptunaReturn
    \/ SkoptStart
    \/ SkoptTrial
    \/ SkoptReturn

\* two-job instances and the scenarios, their jobs list in any order
InitBayes ==
    /\ \E i \in InstancesOf(2, 1) \cup Scenarios, k \in 0..MaxIterations,
          sd \in Seeds :
          instance \in ListOrders(RandomSearchInstance(i, 0, k, sd))
    /\ permutation = <<>>
    /\ simulation_func = "simpy"
    /\ method \in {"optuna", "skopt"}
    /\ pc = "call"
    /\ Idle

SpecBayes == InitBayes /\ [][NextBayes]_vars

\* the score given to a job id by the vector x
ScoreOf(inst, x, job_id) == x[JobIndex(inst, job_id)]

\* C16: the permutation decoded from a vector x is a bijection onto the job
\* ids in which jobs of equal score are in ascending Job.id order, whatever
\* the order of the jobs list; equal scores for jobs listed as ids [2, 0, 1]
\* decode to [0, 1, 2]
C16_DecodeTiesByAscendingId ==
    (method \in {"optuna", "skopt"} /\ pc = "loop" /\ study.n >= 1) =>
        /\ permutation = decode(instance, study.x)
        /\ Bijective(instance, permutation)
        /\ \A a, b \in DOMAIN permutation :
              (a < b /\ ScoreOf(instance, study.x, permutation[a])
                        = ScoreOf(instance, study.x, permutation[b]))
              => permutation[a] < permutation[b]
        /\ ([i \in DOMAIN instance.jobs |-> instance.jobs[i].id] = <<2, 0, 1>>
            /\ study.x = <<1, 1, 1>>)
              => permutation = <<0, 1, 2>>

(***************************************************************************)
(* optimize_deap (specification SpecGA).  An individual is its list of     *)
(* genes (job ids) with its fitness, the makespan; toolbox.clone copies    *)
(* are values.  A random operator of DEAP is the set of its outcomes, each *)
(* with the state of the random source after it and ok = FALSE when it     *)
(* raised.                                                                 *)
(***************************************************************************)
\* GA_CROSSOVER_RATE = 0.9 and GA_MUT_INDPB = 0.05, in percent
GA_CROSSOVER_RATE == 90
GA_MUT_INDPB == 5

\* del ind.fitness.values: the fitness is not valid
NoFitness == -1

Individual(genes, fitness) == [genes |-> genes, fitness |-> fitness]

\* evaluate(ind) = (get_makespan(instance, ind),); NoFitness when the
\* simulator raised
evaluate(inst, genes) ==
    LET res == run_simpy_simulation(inst, genes)
    IN IF res = NoResult THEN NoFitness ELSE res.makespan

\* invalid = [ind for ind in offspring if not ind.fitness.valid];
\* ind.fitness.values = toolbox.evaluate(ind)
evaluate_invalid(inst, individuals) ==
    [i \in DOMAIN individuals |->
        IF individuals[i].fitness = NoFitness
        THEN Individual(individuals[i].genes, evaluate(inst, individuals[i].genes))
        ELSE individuals[i]]

AllValid(individuals) ==
    \A i \in DOMAIN individuals : individuals[i].fitness # NoFitness

\* tools.selBest(individuals, k): sorted(individuals, key=fitness,
\* reverse=True)[:k]; the fitness weight is -1, so the least makespan comes
\* first and equal makespans keep their order
selBest(individuals, k) ==
    LET best == sorted([i \in DOMAIN individuals |->
                           <<individuals[i].fitness, individuals[i]>>])
        m == IF k < Len(best) THEN k ELSE Len(best)
    IN [i \in 1..m |-> best[i][2]]

\* tools.selRandom(individuals, k): [random.choice(individuals) ...]
RECURSIVE selRandom(_, _, _)
selRandom(individuals, k, r) ==
    IF k <= 0 THEN {<<(<<>>), r>>}
    ELSE UNION {{<<Append(o[1], c[1]), c[2]>> : c \in random_choice(individuals, o[2])} :
                  o \in selRandom(individuals, k - 1, r)}

\* max(aspirants, key=fitness): the first aspirant of the least makespan
winner(aspirants) ==
    aspirants[FirstIndex({i \in DOMAIN aspirants :
                             \A k \in DOMAIN aspirants :
                                 aspirants[i].fitness <= aspirants[k].fitness})]

\* tools.selTournament(individuals, k, tournsize): for i in range(k):
\* chosen.append(max(selRandom(individuals, tournsize), key=fitness))
RECURSIVE selTournament(_, _, _, _)
selTournament(individuals, k, tournsize, r) ==
    IF k <= 0 THEN {<<(<<>>), r>>}
    ELSE UNION {{<<Append(o[1], winner(a[1])), a[2]>> :
                    a \in selRandom(individuals, tournsize, o[2])} :
                  o \in selTournament(individuals, k - 1, tournsize, r)}

\* holes[gene] of cxOrdered: a Python list index, negative ones counted
\* from the end, IndexError outside -size..size-1
InRange(gene, size) == gene >= 0 - size /\ gene < size

hole_index(gene, size) == IF gene >= 0 THEN gene + 1 ELSE size + gene + 1

\* the second loop of tools.cxOrdered from step i on; temp1 and temp2 are
\* ind1 and ind2 themselves, so the loop reads what it has written
RECURSIVE cx_fill(_, _, _, _, _)
cx_fill(st, holes1, holes2, b, i) ==
    LET size == Len(st.ind1)
        pos == ((i + b + 1) % size) + 1
        g1 == st.ind1[pos]
        g2 == st.ind2[pos]
    IN IF i >= size \/ ~st.ok THEN st
       ELSE IF ~InRange(g1, size) THEN [st EXCEPT !.ok = FALSE]
       ELSE LET s1 == IF ~holes1[hole_index(g1, size)]
                      THEN [st EXCEPT !.ind1[(st.k1 % size) + 1] = g1,
                                      !.k1 = @ + 1]
                      ELSE st
            IN IF ~InRange(g2, size) THEN [s1 EXCEPT !.ok = FALSE]
               ELSE cx_fill(
                      IF ~holes2[hole_index(g2, size)]
                      THEN [s1 EXCEPT !.ind2[(s1.k2 % size) + 1] = g2,
                                      !.k2 = @ + 1]
                      ELSE s1,
                      holes1, holes2, b, i + 1)

\* tools.cxOrdered(ind1, ind2) with the cut points a <= b (0-based)
cx_ordered_at(ind1, ind2, a, b) ==
    LET size == Len(ind1)
        outside == {i \in 1..size : i - 1 < a \/ i - 1 > b}
        holes1 == [h \in 1..size |->
                      ~\E i \in outside : hole_index(ind2[i], size) = h]
        holes2 == [h \in 1..size |->
                      ~\E i \in outside : hole_index(ind1[i], size) = h]
        filled == cx_fill([ind1 |-> ind1, ind2 |-> ind2, k1 |-> b + 1,
                           k2 |-> b + 1, ok |-> TRUE],
                          holes1, holes2, b, 0)
    IN IF \E i \in outside : ~InRange(ind1[i], size) \/ ~InRange(ind2[i], size)
       THEN [ind1 |-> ind1, ind2 |-> ind2, ok |-> FALSE]
       ELSE [ind1 |-> [i \in 1..size |->
                          IF i - 1 >= a /\ i - 1 <= b THEN filled.ind2[i]
                          ELSE filled.ind1[i]],
             ind2 |-> [i \in 1..size |->
                          IF i - 1 >= a /\ i - 1 <= b THEN filled.ind1[i]
                          ELSE filled.ind2[i]],
             ok |-> filled.ok]

\* tools.cxOrdered: a, b = random.sample(range(size), 2), which raises
\* ValueError when size < 2; if a > b: a, b = b, a
cxOrdered(ind1, ind2, r) ==
    IF Len(ind1) < 2
    THEN {[ind1 |-> ind1, ind2 |-> ind2, ok |-> FALSE, r |-> r]}
    ELSE {LET a == IF o[1][1] <= o[1][2] THEN o[1][1] ELSE o[1][2]
              b == IF o[1][1] <= o[1][2] THEN o[1][2] ELSE o[1][1]
              x == cx_ordered_at(ind1, ind2, a, b)
          IN [ind1 |-> x.ind1, ind2 |-> x.ind2, ok |-> x.ok, r |-> o[2]] :
            o \in random_sample([i \in 1..Len(ind1) |-> i - 1], 2, r)}

\* tools.mutShuffleIndexes(individual, indpb) from index i on: if
\* random.random() < indpb: swap_indx = random.randint(0, size - 2), which
\* raises ValueError when size < 2; if swap_indx >= i: swap_indx += 1
RECURSIVE mutShuffleIndexes(_, _, _)
mutShuffleIndexes(individual, i, r) ==
    IF i >= Len(individual) THEN {[genes |-> individual, ok |-> TRUE, r |-> r]}
    ELSE UNION {
           IF ~c[1] THEN mutShuffleIndexes(individual, i + 1, c[2])
           ELSE IF Len(individual) < 2
           THEN {[genes |-> individual, ok |-> FALSE, r |-> c[2]]}
           ELSE UNION {
                  LET swap_indx == IF o[1] >= i THEN o[1] + 1 ELSE o[1]
                  IN mutShuffleIndexes(Swap(individual, i + 1, swap_indx + 1),
                                       i + 1, o[2]) :
                    o \in randbelow(c[2], Len(individual) - 1)} :
           c \in chance(r, GA_MUT_INDPB)}

\* lines 264-268: for i in range(1, len(offspring), 2): the pair
\* offspring[i-1], offspring[i] is mated with chance GA_CROSSOVER_RATE and
\* its fitness values are deleted; g holds the offspring, the random state
\* and ok; i is the 1-based position of the first of the pair
RECURSIVE mate_from(_, _)
mate_from(g, i) ==
    IF ~g.ok \/ i + 1 > Len(g.offspring) THEN {g}
    ELSE UNION {
           IF ~c[1] THEN mate_from([g EXCEPT !.r = c[2]], i + 2)
           ELSE UNION {
                  mate_from([offspring |->
                                [g.offspring EXCEPT
                                   ![i] = Individual(x.ind1, NoFitness),
                                   ![i + 1] = Individual(x.ind2, NoFitness)],
                             r |-> x.r, ok |-> x.ok], i + 2) :
                    x \in cxOrdered(g.offspring[i].genes,
                                    g.offspring[i + 1].genes, c[2])} :
           c \in chance(g.r, GA_CROSSOVER_RATE)}

\* lines 270-273: for mutant in offspring: mutated with chance GA_MUT_RATE,
\* its fitness values deleted
RECURSIVE mutate_from(_, _, _)
mutate_from(g, i, rate) ==
    IF ~g.ok \/ i > Len(g.offspring) THEN {g}
    ELSE UNION {
           IF ~c[1] THEN mutate_from([g EXCEPT !.r = c[2]], i + 1, rate)
           ELSE UNION {
                  mutate_from([offspring |->
                                  [g.offspring EXCEPT
                                     ![i] = Individual(x.genes, NoFitness)],
                               r |-> x.r, ok |-> x.ok], i + 1, rate) :
                    x \in mutShuffleIndexes(g.offspring[i].genes, 0, c[2])} :
           c \in chance(g.r, rate)}

\* toolbox.population(n): n times random.sample(job_ids, len(job_ids))
RECURSIVE population(_, _, _)
population(job_ids, n, r) ==
    IF n <= 0 THEN {<<(<<>>), r>>}
    ELSE UNION {{<<Append(o[1], Individual(x[1], NoFitness)), x[2]>> :
                    x \in random_sample(job_ids, Len(job_ids), o[2])} :
                  o \in population(job_ids, n - 1, r)}

\* the least makespan of a population
MinFitness(pop) ==
    CHOOSE f \in {pop[i].fitness : i \in DOMAIN pop} :
        \A i \in DOMAIN pop : f <= pop[i].fitness

\* lines 234-258: the random source is seeded, the population is drawn and
\* evaluated
GAStart ==
    /\ pc = "call" /\ method = "deap"
    /\ \E o \in population([i \in DOMAIN instance.jobs |-> instance.jobs[i].id],
                           instance.gaPopulationSize,
                           seed_from(instance, rng)) :
          LET pop == evaluate_invalid(instance, o[1])
          IN /\ rng' = o[2]
             /\ IF AllValid(pop)
                THEN /\ pc' = "loop"
                     /\ ga' = [status |-> "select", pop |-> pop, gen |-> 0,
                               elites |-> <<>>, offspring |-> <<>>,
                               best_seen |-> MinFitness(pop)]
                ELSE /\ pc' = "raised"
                     /\ ga' = [status |-> "raised"]
    /\ UNCHANGED <<instance, permutation, simulation_func, method, env, model,
                   result, rsVars, observed, run, first_result, study, calls>>

\* lines 261-263: the elites are taken and the parents selected and cloned
GASelect ==
    /\ pc = "loop" /\ method = "deap" /\ ga.status = "select"
    /\ ga.gen < instance.maxIterations
    /\ \E sel \in selTournament(ga.pop, Len(ga.pop) - instance.gaElitismCount,
                                instance.gaTournamentSize, rng) :
          /\ rng' = sel[2]
          /\ ga' = [ga EXCEPT !.status = "mate",
                              !.elites = selBest(ga.pop, instance.gaElitismCount),
                              !.offspring = sel[1]]
    /\ UNCHANGED <<instance, permutation, simulation_func, method, pc, env,
                   model, result, rsVars, observed, run, first_result, study,
                   calls>>

\* lines 265-269: the crossover loop
GAMate ==
    /\ pc = "loop" /\ method = "deap" /\ ga.status = "mate"
    /\ \E g \in mate_from([offspring |-> ga.offspring, r |-> rng, ok |-> TRUE], 1) :
          /\ rng' = g.r
          /\ pc' = IF g.ok THEN pc ELSE "raised"
          /\ ga' = [ga EXCEPT !.status = IF g.ok THEN "mutate" ELSE "raised",
                              !.offspring = g.offspring]
    /\ UNCHANGED <<instance, permutation, simulation_func, method, env,
                   model, result, rsVars, observed, run, first_result, study,
                   calls>>

\* lines 271-274: the mutation loop
GAMutate ==
    /\ pc = "loop" /\ method = "deap" /\ ga.status = "mutate"
    /\ \E g \in mutate_from([offspring |-> ga.offspring, r |-> rng, ok |-> TRUE],
                            1, instance.gaMutationRate) :
          /\ rng' = g.r
          /\ pc' = IF g.ok THEN pc ELSE "raised"
          /\ ga' = [ga EXCEPT !.status = IF g.ok THEN "replace" ELSE "raised",
                              !.offspring = g.offspring]
    /\ UNCHANGED <<instance, permutation, simulation_func, method, env,
                   model, result, rsVars, observed, run, first_result, study,
                   calls>>

\* lines 276-280: the changed offspring are evaluated and
\* pop = elites + offspring
GAReplace ==
    /\ pc = "loop" /\ method = "deap" /\ ga.status = "replace"
    /\ LET offspring == evaluate_invalid(instance, ga.offspring)
           pop == ga.elites \o offspring
       IN IF AllValid(offspring)
          THEN /\ pc' = pc
               /\ ga' = [ga EXCEPT !.status = "select", !.pop = pop,
                                   !.gen = @ + 1, !.offspring = offspring,
                                   !.best_seen =
                                      IF MinFitness(pop) < @
                                      THEN MinFitness(pop) ELSE @]
          ELSE /\ pc' = "raised"
               /\ ga' = [ga EXCEPT !.status = "raised"]
    /\ UNCHANGED <<instance, permutation, simulation_func, method, env,
                   model, result, rsVars, rng, observed, run, first_result,
                   study, calls>>

\* lines 282-283: best = tools.selBest(pop, 1)[0] is simulated once more
GAReturn ==
    /\ pc = "loop" /\ method = "deap" /\ ga.status = "select"
    /\ ga.gen >= instance.maxIterations
    /\ LET best == selBest(ga.pop, 1)[1]
           res == run_simpy_simulation(instance, best.genes)
       IN /\ permutation' = best.genes
          /\ result' = res
          /\ pc' = IF res = NoResult THEN "raised" ELSE "returned"
    /\ ga' = [ga EXCEPT !.status = "done"]
    /\ UNCHANGED <<instance, simulation_func, method, env, model,
                   rsVars, rng, observed, run, first_result, study, calls>>

NextGA ==
    \/ GAStart
    \/ GASelect
    \/ GAMate
    \/ GAMutate
    \/ GAReplace
    \/ GAReturn

\* the job ids of n jobs: 0..n-1, 1..n, and 0..n-2 with the negative id
\* 1-n for the last job
IdLists(n) ==
    {[i \in 1..n |-> i - 1], [i \in 1..n |-> i],
     [i \in 1..n |-> IF i = n /\ n > 1 THEN 1 - n ELSE i - 1]}

\* gaMutationRate = 0.2 and gaTournamentSize = 3, the defaults of Instance
DefaultMutationRate == 20
DefaultTournamentSize == 3

\* the instance i with job ids `ids`, maxIterations k, randomSeed sd,
\* gaPopulationSize p and gaElitismCount e
GAInstance(i, ids, k, sd, p, e) ==
    [maxIterations |-> k, randomSeed |-> sd,
     gaPopulationSize |-> p, gaMutationRate |-> DefaultMutationRate,
     gaTournamentSize |-> DefaultTournamentSize, gaElitismCount |-> e,
     numJobs |-> i.numJobs, numStages |-> i.numStages,
     machinesPerStage |-> i.machinesPerStage,
     jobs |-> [n \in DOMAIN i.jobs |-> Job(ids[n], i.jobs[n].processingTimes)]]

InitGA ==
    /\ \E i \in {ScenarioS1, ScenarioS2}, k \in 0..MaxIterations, sd \in Seeds,
          p \in 2..MaxPop, e \in 0..(MaxPop + 1) :
          \E ids \in IdLists(i.numJobs) :
              instance = GAInstance(i, ids, k, sd, p, e)
    /\ permutation = <<>>
    /\ simulation_func = "simpy"
    /\ method = "deap"
    /\ pc = "call"
    /\ Idle

SpecGA == InitGA /\ [][NextGA]_vars

\* C13: at every generation boundary the population has gaPopulationSize
\* individuals and every individual is a bijection onto the job ids
C13_PopulationInvariant ==
    (method = "deap" /\ pc = "loop" /\ ga.status = "select") =>
        /\ Len(ga.pop) = instance.gaPopulationSize
        /\ \A i \in DOMAIN ga.pop : Bijective(instance, ga.pop[i].genes)

\* C14: the least makespan of the population never grows from one
\* generation to the next, and the makespan returned is no worse than the
\* least makespan of any earlier population
C14_BestNeverWorsens ==
    /\ (method = "deap" /\ pc = "loop" /\ ga.pop # <<>>)
          => MinFitness(ga.pop) <= ga.best_seen
    /\ (method = "deap" /\ pc = "returned") => result.makespan <= ga.best_seen

(***************************************************************************)
(* Two runs of the same search method on the same seeded instance, one     *)
(* after the other (specification SpecRuns).                               *)
(***************************************************************************)
SearchMethods == {"random_search", "optuna", "skopt", "deap"}

InitRuns ==
    /\ \E i \in {ScenarioS1, ScenarioS2}, k \in 0..MaxIterations,
          sd \in 0..MaxSeed :
          instance = GAInstance(i, [n \in 1..i.numJobs |-> n - 1], k, sd, 2, 1)
    /\ permutation = <<>>
    /\ simulation_func = "simpy"
    /\ method \in SearchMethods
    /\ pc = "call"
    /\ Idle

\* the first run has ended; the method is called again with the same
\* instance: its locals are new, the state of the random module stays
RunAgain ==
    /\ run = 1 /\ pc \in {"returned", "raised"}
    /\ run' = 2
    /\ first_result' = IF pc = "returned" THEN result ELSE NoResult
    /\ pc' = "call"
    /\ permutation' = <<>>
    /\ result' = NoResult
    /\ best_result' = NoResult
    /\ best_makespan' = Infinity
    /\ iteration' = 0
    /\ simulated' = {}
    /\ swallowed' = 0
    /\ fallback' = FALSE
    /\ observed' = <<>>
    /\ study' = [status |-> "none"]
    /\ ga' = [status |-> "none"]
    /\ UNCHANGED <<instance, simulation_func, method, env, model, rng, calls>>

NextRuns ==
    \/ NextRandom
    \/ NextBayes
    \/ NextGA
    \/ RunAgain

SpecRuns == InitRuns /\ [][NextRuns]_vars

\* C11: two runs of the same method on the same instance with a randomSeed
\* end alike, and when they return, with the same permutation and makespan
C11_SeededRunsAgree ==
    (run = 2 /\ pc \in {"returned", "raised"} /\ instance.randomSeed # NoSeed) =>
        /\ (pc = "returned") <=> (first_result # NoResult)
        /\ pc = "returned" =>
              /\ result.permutation = first_result.permutation
              /\ result.makespan = first_result.makespan

(***************************************************************************)
(* Two calls of optimize_with_random_search whose steps interleave.  Each  *)
(* call has its own instance and its own locals (calls[c]); both use the   *)
(* functions of the `random` module, whose state (rng) belongs to the      *)
(* process.  A step is the seeding of line 111, one iteration of the loop  *)
(* or the return: threads can switch at finer grain than that, so these    *)
(* interleavings are some of those the interpreter allows.                 *)
(***************************************************************************)
Callers == {1, 2}

\* the locals of a call at its entry
Call(inst) ==
    [pc |-> "call", instance |-> inst, iteration |-> 0,
     best_result |-> NoResult, best_makespan |-> Infinity, result |-> NoResult]

\* lines 110-113 in call c
CallStart(c) ==
    /\ calls[c].pc = "call"
    /\ rng' = seed_from(calls[c].instance, rng)
    /\ calls' = [calls EXCEPT ![c].pc = "loop"]
    /\ UNCHANGED <<instance, permutation, simulation_func, method, pc, env,
                   model, result, rsVars, observed, run, first_result, study,
                   ga>>

\* lines 115-127 in call c
CallIteration(c) ==
    /\ calls[c].pc = "loop"
    /\ calls[c].iteration < calls[c].instance.maxIterations
    /\ \E o \in shuffles(calls[c].instance, rng) :
          LET r == simulate(calls[c].instance, o[1])
              better == /\ r # NoResult
                        /\ LessThan(r.makespan, calls[c].best_makespan)
          IN /\ rng' = o[2]
             /\ calls' = [calls EXCEPT
                   ![c].iteration = @ + 1,
                   ![c].best_makespan = IF better THEN r.makespan ELSE @,
                   ![c].best_result = IF better THEN r ELSE @]
    /\ UNCHANGED <<instance, permutation, simulation_func, method, pc, env,
                   model, result, rsVars, observed, run, first_result, study,
                   ga>>

\* lines 129-132 in call c
CallFallback(c) ==
    /\ calls[c].pc = "loop"
    /\ calls[c].iteration >= calls[c].instance.maxIterations
    /\ calls[c].best_result = NoResult
    /\ LET r == simulate(calls[c].instance,
                         identity_permutation(calls[c].instance))
       IN calls' = [calls EXCEPT
             ![c].result = r,
             ![c].pc = IF r = NoResult THEN "raised" ELSE "returned"]
    /\ UNCHANGED <<instance, permutation, simulation_func, method, pc, env,
                   model, result, rsVars, rng, observed, run, first_result,
                   study, ga>>

\* line 134 in call c
CallReturn(c) ==
    /\ calls[c].pc = "loop"
    /\ calls[c].iteration >= calls[c].instance.maxIterations
    /\ calls[c].best_result # NoResult
    /\ calls' = [calls EXCEPT ![c].result = calls[c].best_result,
                              ![c].pc = "returned"]
    /\ UNCHANGED <<instance, permutation, simulation_func, method, pc, env,
                   model, result, rsVars, rng, observed, run, first_result,
                   study, ga>>

NextCalls ==
    \/ \E c \in Callers : CallStart(c)
    \/ \E c \in Callers : CallIteration(c)
    \/ \E c \in Callers : CallFallback(c)
    \/ \E c \in Callers : CallReturn(c)

\* two seeded calls on instances of their own; an iteration budget of 0
\* takes the fallback
InitCalls ==
    /\ \E i1 \in Scenarios, i2 \in Scenarios,
          k1 \in 0..MaxIterations, k2 \in 0..MaxIterations,
          s1 \in 0..MaxSeed, s2 \in 0..MaxSeed :
          /\ calls = <<Call(RandomSearchInstance(i1, 0, k1, s1)),
                       Call(RandomSearchInstance(i2, 0, k2, s2))>>
          /\ instance = RandomSearchInstance(i1, 0, k1, s1)
    /\ permutation = <<>>
    /\ simulation_func = "simpy"
    /\ method = "random_search"
    /\ pc = "call"
    /\ env = [status |-> "none"]
    /\ model = [status |-> "none"]
    /\ result = NoResult
    /\ best_result = NoResult
    /\ best_makespan = Infinity
    /\ iteration = 0
    /\ simulated = {}
    /\ swallowed = 0
    /\ fallback = FALSE
    /\ rng = Unseeded
    /\ observed = <<>>
    /\ run = 1
    /\ first_result = NoResult
    /\ study = [status |-> "none"]
    /\ ga = [status |-> "none"]

SpecCalls == InitCalls /\ [][NextCalls]_vars

\* the result of optimize_with_random_search(inst, simulation_func) run with
\* no other call in the process: the loop from iteration it on, with the
\* random module in state r and the best result so far
RECURSIVE search_alone_from(_, _, _, _)
search_alone_from(inst, r, it, best) ==
    IF it >= inst.maxIterations
    THEN IF best = NoResult
         THEN simulate(inst, identity_permutation(inst))
         ELSE best
    ELSE LET o == CHOOSE o \in shuffles(inst, r) : TRUE
             res == simulate(inst, o[1])
             bm == IF best = NoResult THEN Infinity ELSE best.makespan
         IN search_alone_from(inst, o[2], it + 1,
               IF res # NoResult /\ LessThan(res.makespan, bm)
               THEN res ELSE best)

search_alone(inst) ==
    search_alone_from(inst, seed_from(inst, Unseeded), 0, NoResult)

\* C12: when two seeded calls of the random search interleave, a call that
\* has ended returns the permutation and the makespan it returns when it
\* runs alone (and raises exactly when it raises alone)
C12_InterleavedAsAlone ==
    \A c \in Callers :
        calls[c].pc \in {"returned", "raised"} =>
            LET alone == search_alone(calls[c].instance)
            IN IF alone = NoResult
               THEN calls[c].pc = "raised"
               ELSE /\ calls[c].pc = "returned"
                    /\ calls[c].result.permutation = alone.permutation
                    /\ calls[c].result.makespan = alone.makespan

(***************************************************************************)
(* optimize_deap with the individuals as objects (specification            *)
(* SpecClone).  ga.heap is the list of the individuals alive, a reference  *)
(* is an index of it, and ga.pop, ga.elites and ga.offspring are lists of  *)
(* references: tools.selBest and toolbox.select return members of pop      *)
(* themselves, toolbox.clone makes new objects, toolbox.mate,              *)
(* toolbox.mutate and the evaluation write into the objects they are       *)
(* given.                                                                  *)
(***************************************************************************)
\* the objects behind a list of references
deref(heap, refs) == [i \in DOMAIN refs |-> heap[refs[i]]]

\* references paired with the fitness the selection operators compare
tagged(heap, refs) ==
    [i \in DOMAIN refs |-> [ref |-> refs[i], fitness |-> heap[refs[i]].fitness]]

refs_of(individuals) == [i \in DOMAIN individuals |-> individuals[i].ref]

\* the offspring list handed on as it is, with no copy made
clone_shared(heap, refs) == [heap |-> heap, refs |-> refs]

\* line 263: list(map(toolbox.clone, offspring)): every entry of the list
\* is deep-copied into an object of its own
clone(heap, refs) ==
    [heap |-> heap \o deref(heap, refs),
     refs |-> [i \in DOMAIN refs |-> Len(heap) + i]]

\* the objects refs[i..] overwritten in place by values[i..]
RECURSIVE store(_, _, _, _)
store(heap, refs, values, i) ==
    IF i > Len(refs) THEN heap
    ELSE store([heap EXCEPT ![refs[i]] = values[i]], refs, values, i + 1)

\* the objects no list refers to any more are dropped; the references are
\* renumbered in their order
compact(heap, refs) ==
    LET live == Range(refs)
        rank(x) == Cardinality({y \in live : y <= x})
    IN [heap |-> [i \in 1..Cardinality(live) |->
                     heap[CHOOSE x \in live : rank(x) = i]],
        refs |-> [i \in DOMAIN refs |-> rank(refs[i])]]

\* lines 234-258
DeapPopulation ==
    /\ pc = "call" /\ method = "deap"
    /\ \E o \in population([i \in DOMAIN instance.jobs |-> instance.jobs[i].id],
                           instance.gaPopulationSize,
                           seed_from(instance, rng)) :
          LET pop == evaluate_invalid(instance, o[1])
          IN /\ rng' = o[2]
             /\ IF AllValid(pop)
                THEN /\ pc' = "loop"
                     /\ ga' = [status |-> "select", heap |-> pop,
                               pop |-> [i \in DOMAIN pop |-> i], gen |-> 0,
                               elites |-> <<>>, offspring |-> <<>>,
                               varied |-> FALSE]
                ELSE /\ pc' = "raised"
                     /\ ga' = [status |-> "raised"]
    /\ UNCHANGED <<instance, permutation, simulation_func, method, env, model,
                   result, rsVars, observed, run, first_result, study, calls>>

\* lines 261-262: elites and offspring are members of pop; the objects of
\* the generation before that pop does not hold are gone
DeapSelect ==
    /\ pc = "loop" /\ method = "deap" /\ ga.status = "select"
    /\ ga.gen < instance.maxIterations
    /\ LET c == compact(ga.heap, ga.pop)
           pop == tagged(c.heap, c.refs)
       IN \E sel \in selTournament(pop, Len(pop) - instance.gaElitismCount,
                                   instance.gaTournamentSize, rng) :
             /\ rng' = sel[2]
             /\ ga' = [ga EXCEPT
                   !.status = "clone", !.heap = c.heap, !.pop = c.refs,
                   !.elites = refs_of(selBest(pop, instance.gaElitismCount)),
                   !.offspring = refs_of(sel[1]),
                   !.varied = FALSE]
    /\ UNCHANGED <<instance, permutation, simulation_func, method, pc, env,
                   model, result, rsVars, observed, run, first_result, study,
                   calls>>

\* line 263
DeapClone ==
    /\ pc = "loop" /\ method = "deap" /\ ga.status = "clone"
    /\ LET c == clone(ga.heap, ga.offspring)
       IN ga' = [ga EXCEPT !.status = "mate", !.heap = c.heap,
                           !.offspring = c.refs]
    /\ UNCHANGED <<instance, permutation, simulation_func, method, pc, env,
                   model, result, rsVars, rng, observed, run, first_result,
                   study, calls>>

\* lines 265-269: toolbox.mate works in place on the two objects
DeapMate ==
    /\ pc = "loop" /\ method = "deap" /\ ga.status = "mate"
    /\ \E g \in mate_from([offspring |-> deref(ga.heap, ga.offspring),
                           r |-> rng, ok |-> TRUE], 1) :
          LET heap == store(ga.heap, ga.offspring, g.offspring, 1)
          IN /\ rng' = g.r
             /\ pc' = IF g.ok THEN pc ELSE "raised"
             /\ ga' = IF g.ok
                      THEN [ga EXCEPT !.status = "mutate", !.heap = heap,
                                      !.varied = @ \/ heap # ga.heap]
                      ELSE [status |-> "raised"]
    /\ UNCHANGED <<instance, permutation, simulation_func, method, env,
                   model, result, rsVars, observed, run, first_result, study,
                   calls>>

\* lines 271-274: toolbox.mutate works in place on the object
DeapMutate ==
    /\ pc = "loop" /\ method = "deap" /\ ga.status = "mutate"
    /\ \E g \in mutate_from([offspring |-> deref(ga.heap, ga.offspring),
                             r |-> rng, ok |-> TRUE],
                            1, instance.gaMutationRate) :
          LET heap == store(ga.heap, ga.offspring, g.offspring, 1)
          IN /\ rng' = g.r
             /\ pc' = IF g.ok THEN pc ELSE "raised"
             /\ ga' = IF g.ok
                      THEN [ga EXCEPT !.status = "replace", !.heap = heap,
                                      !.varied = @ \/ heap # ga.heap]
                      ELSE [status |-> "raised"]
    /\ UNCHANGED <<instance, permutation, simulation_func, method, env,
                   model, result, rsVars, observed, run, first_result, study,
                   calls>>

\* lines 276-280: the offspring without a fitness are evaluated in place and
\* pop = elites + offspring
DeapReplace ==
    /\ pc = "loop" /\ method = "deap" /\ ga.status = "replace"
    /\ LET offspring == evaluate_invalid(instance, deref(ga.heap, ga.offspring))
       IN IF AllValid(offspring)
          THEN /\ pc' = pc
               /\ ga' = [ga EXCEPT
                     !.status = "select",
                     !.heap = store(ga.heap, ga.offspring, offspring, 1),
                     !.pop = ga.elites \o ga.offspring,
                     !.gen = @ + 1]
          ELSE /\ pc' = "raised"
               /\ ga' = [status |-> "raised"]
    /\ UNCHANGED <<instance, permutation, simulation_func, method, env, model,
                   result, rsVars, rng, observed, run, first_result, study,
                   calls>>

\* lines 282-283
DeapReturn ==
    /\ pc = "loop" /\ method = "deap" /\ ga.status = "select"
    /\ ga.gen >= instance.maxIterations
    /\ LET best == ga.heap[selBest(tagged(ga.heap, ga.pop), 1)[1].ref]
           res == run_simpy_simulation(instance, best.genes)
       IN /\ permutation' = best.genes
          /\ result' = res
          /\ pc' = IF res = NoResult THEN "raised" ELSE "returned"
    /\ ga' = [ga EXCEPT !.status = "done"]
    /\ UNCHANGED <<instance, simulation_func, method, env, model,
                   rsVars, rng, observed, run, first_result, study, calls>>

NextClone ==
    \/ DeapPopulation
    \/ DeapSelect
    \/ DeapClone
    \/ DeapMate
    \/ DeapMutate
    \/ DeapReplace
    \/ DeapReturn

\* the most genes a population holds: gaPopulationSize * numJobs
MaxGenes == 6

\* maxIterations generations on S1 or S2, with tournaments of two
InitClone ==
    /\ \E i \in {ScenarioS1, ScenarioS2}, sd \in Seeds,
          p \in 2..MaxPop, e \in 0..MaxPop :
          \E ids \in IdLists(i.numJobs) :
              /\ p * i.numJobs <= MaxGenes
              /\ e <= p
              /\ instance = [GAInstance(i, ids, MaxIterations, sd, p, e)
                               EXCEPT !.gaTournamentSize = 2]
    /\ permutation = <<>>
    /\ simulation_func = "simpy"
    /\ method = "deap"
    /\ pc = "call"
    /\ Idle

SpecClone == InitClone /\ [][NextClone]_vars

\* a step of a generation: what it leaves as it was
GenerationFrame ==
    (method = "deap" /\ pc = "loop" /\ ga'.status # "raised"
     /\ ga.status \in {"select", "clone", "mate", "mutate", "replace"}) =>
        /\ ga.status = "select" =>
              deref(ga'.heap, ga'.pop) = deref(ga.heap, ga.pop)
        /\ ga.status # "select" =>
              /\ ga'.elites = ga.elites
              /\ \A ref \in Range(ga.pop) \cup Range(ga.elites) :
                    ga'.heap[ref] = ga.heap[ref]
        /\ ga.status \in {"mate", "mutate", "replace"} =>
              \A ref \in DOMAIN ga.heap \ Range(ga.offspring) :
                  ga'.heap[ref] = ga.heap[ref]
        /\ ga.status = "replace" =>
              /\ SubSeq(ga'.pop, 1, Len(ga.elites)) = ga.elites
              /\ SubSeq(ga'.pop, Len(ga.elites) + 1, Len(ga'.pop)) = ga.offspring

\* the offspring under variation are no members of the population, and at
\* a generation boundary every fitness is the makespan of the genes
BoundaryFitness ==
    /\ (method = "deap" /\ ga.status \in {"mate", "mutate", "replace"}) =>
          Range(ga.offspring) \cap (Range(ga.pop) \cup Range(ga.elites)) = {}
    /\ (method = "deap" /\ ga.status \in {"select", "done"}) =>
          \A i \in DOMAIN ga.pop :
              /\ ga.heap[ga.pop[i]].fitness # NoFitness
              /\ ga.heap[ga.pop[i]].fitness
                   = evaluate(instance, ga.heap[ga.pop[i]].genes)

\* C21: within a generation of optimize_deap, crossover and mutation write
\* only into the cloned offspring: no individual of the previous population
\* and no elite has its genes or its fitness changed, the elites are
\* carried into the next population as they were, and at every generation
\* boundary each individual's fitness is the simulated makespan of its genes
C21_VariationLeavesParents == []BoundaryFitness /\ [][GenerationFrame]_vars

\* two generations are over, an elite was carried and the variation of the
\* last generation has changed an offspring
C21_Witness ==
    /\ method = "deap" /\ pc = "loop" /\ ga.status = "select"
    /\ ga.gen >= 2 /\ ga.varied
    /\ Len(ga.elites) >= 1 /\ Len(ga.offspring) >= 1

=============================================================================
